---- MODULE Spec2Model ----
(***************************************************************************)
(* PAM browser session channel: the server-side WebSocket handler of       *)
(* registerPamSessionRouter ("/:sessionId/ws"), the relay and gateway      *)
(* tunnel clients it calls, the in-memory session access data store and    *)
(* the query bridge executeQueryThroughGateway.                            *)
(*                                                                         *)
(* One JavaScript event-loop turn of the handler (the code between two     *)
(* awaits, or one event listener) is one action.                           *)
(***************************************************************************)
EXTENDS Integers, Sequences, FiniteSets, TLC

\* ------------------------------------------------------------------ bounds
MaxTime == 2
MaxMessages == 2
MaxCalls == 2
MaxEffects == 2
MaxSockets == 6
MaxSubmits == 1
QuerySockets == 3
MaxHostLen == 4
MaxOps == 4

\* The browser connection under study and the session it names.
Channels == {"ws"}
SessionIds == {"s1"}
\* session.expiresAt, when set.
ExpiryTimes == {1}

\* An optional value (T | null | undefined) is a sequence of length 0 or 1.
Absent == << >>
Some(x) == << x >>
IsPresent(o) == Len(o) > 0

\* relayHost strings of the stored access data, as character sequences.
RelayHosts == { << "r" >>, << "r", ":", "8" >>, << "r", ":", "x" >> }

Digits == { "0", "1", "2", "3", "4", "5", "6", "7", "8", "9" }

\* ------------------------------------------------------------------ state
VARIABLES
  now,          \* wall clock read by new Date()
  sessStatus,   \* session.status per session id (pamSession service)
  expiresAt,    \* session.expiresAt per session id (optional timestamp)
  store,        \* SessionAccessDataStore.store : sessionId -> access data
  procAlive,    \* the backend process is running
  chan,         \* per WebSocket connection: handler locals, sockets, logs
  call,         \* executeQueryThroughGateway on one gateway socket, call by call
  hook,         \* usePamWebSocket in one browser component: state, refs, sockets
  cache,        \* SessionAccessDataStore taken alone: the Map and the call history
  dial          \* createRelayConnection taken alone, up to tls.connect

vars == << now, sessStatus, expiresAt, store, procAlive, chan, call, hook,
           cache, dial >>

\* The variables of the WebSocket route and of the bridge call.
serverVars == << now, sessStatus, expiresAt, store, procAlive, chan, call >>

\* A connection that has not been opened yet.
IdleChannel ==
  [ pc              |-> "idle",
    sessionId       |-> "s1",
    canRead         |-> FALSE,
    socket          |-> "none",
    rejectCode      |-> 0,
    rejectReason    |-> "",
    accessData      |-> Absent,
    relayConn       |-> FALSE,
    gatewayConn     |-> FALSE,
    relaySock       |-> "none",
    gatewaySock     |-> "none",
    relayTimer      |-> FALSE,
    gatewayTimer    |-> FALSE,
    relayResult     |-> "none",
    gatewayResult   |-> "none",
    relayAttempts   |-> 0,
    gatewayAttempts |-> 0,
    sent            |-> << >>,
    msgs            |-> << >>,
    frame           |-> Absent,
    relayPeer       |-> "none",
    gatewayPeer     |-> "none",
    closeLog        |-> << >>,
    pushed          |-> 0,
    unheard         |-> 0 ]

\* The bridge before its first call, on an established gateway socket.
IdleCall ==
  [ pc          |-> "idle",
    calls       |-> 0,
    gatewayConn |-> "open",
    sql         |-> "none",
    query       |-> << >>,
    credentials |-> Absent,
    options     |-> Absent,
    result      |-> Absent,
    cause       |-> "",
    value       |-> Absent,
    error       |-> Absent,
    errorLog    |-> Absent ]

\* usePamWebSocket before its effect has run: useState / useRef initial values.
\* ws and timers list every WebSocket and every reconnect timer created;
\* submits counts the calls of executeQuery and sends the frames it sent;
\* sawExpired tells that a session_expired push was handled since the effect
\* last ran; lastCloseCode is the code of the latest close event.
IdleHook ==
  [ mounted              |-> FALSE,
    effects              |-> 0,
    connectionStatus     |-> "disconnected",
    lastResult           |-> "null",
    lastError            |-> "null",
    isExecuting          |-> FALSE,
    wsRef                |-> 0,
    reconnectAttempts    |-> 0,
    reconnectTimeoutRef  |-> 0,
    shouldReconnect      |-> TRUE,
    ws                   |-> << >>,
    timers               |-> << >>,
    submits              |-> 0,
    sends                |-> 0,
    lastCloseCode        |-> 0,
    sawExpired           |-> FALSE ]

\* The store as constructed: an empty Map, nothing called yet.
IdleCache == [ map |-> << >>, log |-> << >> ]

\* createRelayConnection not called yet.
IdleDial ==
  [ pc |-> "idle", relayHost |-> << >>, host |-> << >>, port |-> 0,
    error |-> "" ]

\* The route, the bridge and the stand-alone components before any activity.
AtRest ==
  /\ now = 0
  /\ sessStatus = [s \in SessionIds |-> "active"]
  /\ expiresAt = [s \in SessionIds |-> Absent]
  /\ store = [s \in SessionIds |-> Absent]
  /\ procAlive = TRUE
  /\ call = IdleCall
  /\ hook = IdleHook
  /\ cache = IdleCache
  /\ dial = IdleDial

Init ==
  /\ now = 0
  /\ sessStatus \in [SessionIds -> {"active", "ended", "terminated"}]
  /\ expiresAt \in [SessionIds -> {Absent} \cup {Some(t) : t \in ExpiryTimes}]
  /\ store = [s \in SessionIds |-> Absent]
  /\ procAlive = TRUE
  /\ chan = [c \in Channels |-> IdleChannel]
  /\ call = IdleCall
  /\ hook = IdleHook
  /\ cache = IdleCache
  /\ dial = IdleDial

\* ------------------------------------------------------- SessionAccessDataStore
StoreSet(s, data) ==
  /\ procAlive
  /\ store' = [store EXCEPT ![s] = Some(data)]
  /\ UNCHANGED << hook, cache, dial, call, now, sessStatus, expiresAt, procAlive, chan >>

StoreDelete(s) ==
  /\ procAlive
  /\ store' = [store EXCEPT ![s] = Absent]
  /\ UNCHANGED << hook, cache, dial, call, now, sessStatus, expiresAt, procAlive, chan >>

StoreClear ==
  /\ procAlive
  /\ store' = [s \in SessionIds |-> Absent]
  /\ UNCHANGED << hook, cache, dial, call, now, sessStatus, expiresAt, procAlive, chan >>

StoreGet(s) == store[s]

\* ------------------------------------------------------------ environment
Tick ==
  /\ now < MaxTime
  /\ now' = now + 1
  /\ UNCHANGED << hook, cache, dial, call, sessStatus, expiresAt, store, procAlive, chan >>

\* POST /:sessionId/end (or a termination) moves an active session on.
EndSession(s, status) ==
  /\ procAlive
  /\ sessStatus[s] = "active"
  /\ sessStatus' = [sessStatus EXCEPT ![s] = status]
  /\ UNCHANGED << hook, cache, dial, call, now, expiresAt, store, procAlive, chan >>

\* ------------------------------------------------------------ helpers
Upd(c, rec) == [chan EXCEPT ![c] = rec]

Executing(ch) == { i \in 1..Len(ch.msgs) : ch.msgs[i] = "executing" }

\* socket.send(...): ws drops a frame sent on a socket that is not open.
Send(ch, m) == IF ch.socket = "open" THEN Append(ch.sent, m) ELSE ch.sent

\* socket.close(code, reason) followed by return. rejectCode and rejectReason
\* are the arguments of the call.
Reject(ch, code, reason) ==
  [ch EXCEPT !.socket = "closed", !.rejectCode = code,
             !.rejectReason = reason, !.pc = "returned"]

\* The async route handler rejects: the websocket plugin's default
\* errorHandler logs the error and calls socket.terminate().
HandlerRejects(ch) == [ch EXCEPT !.pc = "failed", !.socket = "closed"]

\* An exception or promise rejection leaves an event listener unhandled: the
\* runtime either reports it and carries on, or ends the process.
ProcessExit(chans) ==
  [c \in DOMAIN chans |->
     [chans[c] EXCEPT
        !.socket = IF @ = "open" THEN "closed" ELSE @,
        !.relaySock = IF @ \in {"connecting", "open"} THEN "lost" ELSE @,
        !.gatewaySock = IF @ \in {"connecting", "open"} THEN "lost" ELSE @]]

\* ------------------------------------------------------------ session checks
SessionEnded_OnlyEnded(s) == sessStatus[s] = "ended"

SessionEnded(s) == sessStatus[s] = "ended" \/ sessStatus[s] = "terminated"

SessionExpired(s) == IsPresent(expiresAt[s]) /\ expiresAt[s][1] < now

\* ------------------------------------------------------------ relay address
IndexOfColon(h) ==
  IF \E i \in 1..Len(h) : h[i] = ":"
    THEN CHOOSE i \in 1..Len(h) : h[i] = ":" /\ \A j \in 1..(i - 1) : h[j] # ":"
    ELSE 0

\* parts[1] of relayHost.split(":"): the text between the first colon and
\* the next one (or the end).
PortSegment(h) ==
  LET k == IndexOfColon(h)
      rest == SubSeq(h, k + 1, Len(h))
      e == IndexOfColon(rest)
  IN IF e = 0 THEN rest ELSE SubSeq(rest, 1, e - 1)

\* Number.isNaN(parseInt(segment, 10)): no leading decimal digit.
PortIsNaN(h) ==
  LET seg == PortSegment(h) IN Len(seg) = 0 \/ seg[1] \notin Digits

InvalidRelayHost(h) == IndexOfColon(h) # 0 /\ PortIsNaN(h)

\* ------------------------------------------------------------ the ws handler
\* A browser opens the WebSocket; the route handler starts and awaits
\* pamSession.getById.
Open(c, s, can) ==
  /\ procAlive
  /\ chan[c].pc = "idle"
  /\ chan' = Upd(c, [chan[c] EXCEPT !.pc = "getById", !.sessionId = s,
                                    !.canRead = can, !.socket = "open"])
  /\ UNCHANGED << hook, cache, dial, call, now, sessStatus, expiresAt, store, procAlive >>

\* getById resolved: status and expiry checks, then await getProjectPermission.
ValidateSession(ch) ==
  IF SessionEnded(ch.sessionId)
    THEN Reject(ch, 4404, "Session has ended")
    ELSE IF SessionExpired(ch.sessionId)
      THEN Reject(ch, 4404, "Session has expired")
      ELSE [ch EXCEPT !.pc = "permission"]

GetByIdReturns(c) ==
  /\ procAlive
  /\ chan[c].pc = "getById"
  /\ chan' = Upd(c, ValidateSession(chan[c]))
  /\ UNCHANGED << hook, cache, dial, call, now, sessStatus, expiresAt, store, procAlive >>

\* createRelayConnection up to its first await: parse relayHost, tls.connect,
\* arm the 10 s timeout.
StartRelay(ch) ==
  IF InvalidRelayHost(ch.accessData[1])
    THEN HandlerRejects([ch EXCEPT !.relayAttempts = @ + 1,
                                   !.relayResult = "config"])
    ELSE [ch EXCEPT !.pc = "relay", !.relayAttempts = @ + 1,
                    !.relayResult = "pending", !.relaySock = "connecting",
                    !.relayTimer = TRUE]

LookupAccessData_NoCheck(ch) ==
  LET found == [ch EXCEPT !.accessData = StoreGet(ch.sessionId)]
  IN IF ~IsPresent(found.accessData)
       THEN HandlerRejects(found)
       ELSE StartRelay(found)

\* sessionAccessDataStore.get(sessionId) and the branch on its result.
LookupAccessData(ch) ==
  LET found == [ch EXCEPT !.accessData = StoreGet(ch.sessionId)]
  IN IF ~IsPresent(found.accessData)
       THEN Reject(found, 4404, "Session data not found or expired")
       ELSE StartRelay(found)

Authorize_NoCheck(ch) == LookupAccessData(ch)

\* getProjectPermission resolved: permission check, store lookup, relay connect.
Authorize(ch) ==
  IF ~ch.canRead
    THEN Reject(ch, 4403, "Forbidden: No permission to access session")
    ELSE LookupAccessData(ch)

PermissionReturns(c) ==
  /\ procAlive
  /\ chan[c].pc = "permission"
  /\ chan' = Upd(c, Authorize(chan[c]))
  /\ UNCHANGED << hook, cache, dial, call, now, sessStatus, expiresAt, store, procAlive >>

StartGateway_AcksEarly(ch) ==
  [ch EXCEPT !.pc = "gateway", !.gatewayAttempts = @ + 1,
             !.gatewayResult = "pending", !.gatewaySock = "connecting",
             !.gatewayTimer = TRUE,
             !.sent = Send(ch, [type |-> "connected", id |-> 0])]

\* createGatewayConnection up to its first await.
StartGateway(ch) ==
  [ch EXCEPT !.pc = "gateway", !.gatewayAttempts = @ + 1,
             !.gatewayResult = "pending", !.gatewaySock = "connecting",
             !.gatewayTimer = TRUE]

AfterRelay_IgnoresFailure(ch, result) ==
  StartGateway([ch EXCEPT !.relayResult = result, !.relayConn = TRUE,
                          !.relayTimer = FALSE])

\* The handler resumes after `await createRelayConnection(...)`.
AfterRelay(ch, result) ==
  IF result = "ok"
    THEN StartGateway([ch EXCEPT !.relayResult = "ok", !.relayConn = TRUE,
                                 !.relayTimer = FALSE])
    ELSE HandlerRejects([ch EXCEPT !.relayResult = result])

\* The socket's `authorized` property once the handshake has completed.
Peer(authorized) == IF authorized THEN "authorized" ELSE "unauthorized"

RelayVerdict_TrustsAll(authorized) == "ok"

\* The "secureConnect" listener of the relay leg: reject when the peer is not
\* authorized, resolve otherwise.
RelayVerdict(authorized) == IF authorized THEN "ok" ELSE "unauthorized"

\* relayConn "secureConnect".
RelaySecureConnect(c, authorized) ==
  /\ procAlive
  /\ chan[c].pc = "relay"
  /\ chan[c].relaySock = "connecting"
  /\ chan' = Upd(c, AfterRelay([chan[c] EXCEPT !.relaySock = "open",
                                               !.relayPeer = Peer(authorized)],
                               RelayVerdict(authorized)))
  /\ UNCHANGED << hook, cache, dial, call, now, sessStatus, expiresAt, store, procAlive >>

\* relayConn "error": the socket is destroyed by the runtime, the promise rejects.
RelayError(c) ==
  /\ procAlive
  /\ chan[c].pc = "relay"
  /\ chan[c].relaySock = "connecting"
  /\ chan' = Upd(c, AfterRelay([chan[c] EXCEPT !.relaySock = "destroyed",
                                               !.relayTimer = FALSE], "error"))
  /\ UNCHANGED << hook, cache, dial, call, now, sessStatus, expiresAt, store, procAlive >>

\* The relay timeout callback: destroy the socket, reject (a no-op once the
\* promise has settled).
RelayTimeout(c) ==
  /\ procAlive
  /\ chan[c].relayTimer
  /\ chan[c].relaySock \in {"connecting", "open"}
  /\ LET destroyed == [chan[c] EXCEPT !.relaySock = "destroyed",
                                      !.relayTimer = FALSE,
                                      !.gatewaySock =
                                         IF @ \in {"connecting", "open"}
                                           THEN "lost" ELSE @]
     IN chan' = Upd(c, IF chan[c].relayResult = "pending"
                         THEN AfterRelay(destroyed, "timeout")
                         ELSE destroyed)
  /\ UNCHANGED << hook, cache, dial, call, now, sessStatus, expiresAt, store, procAlive >>

AfterGateway_KeepsTimer(ch, result) ==
  IF result = "ok"
    THEN [ch EXCEPT !.gatewayResult = "ok", !.gatewayConn = TRUE,
                    !.pc = "user",
                    !.sent = Send(ch, [type |-> "connected", id |-> 0])]
    ELSE [ch EXCEPT !.gatewayResult = result, !.pc = "failed",
                    !.socket = "closed"]

AfterGateway_Swallows(ch, result) ==
  [ch EXCEPT !.gatewayResult = result, !.gatewayConn = TRUE,
             !.gatewayTimer = FALSE, !.pc = "user",
             !.sent = Send(ch, [type |-> "connected", id |-> 0])]

\* The handler resumes after `await createGatewayConnection(...)`: on success
\* it sends "connected" and awaits store.user.findById.
AfterGateway(ch, result) ==
  IF result = "ok"
    THEN [ch EXCEPT !.gatewayResult = "ok", !.gatewayConn = TRUE,
                    !.gatewayTimer = FALSE, !.pc = "user",
                    !.sent = Send(ch, [type |-> "connected", id |-> 0])]
    ELSE HandlerRejects([ch EXCEPT !.gatewayResult = result])

\* The "secureConnect" listener of the gateway leg: the authorization check,
\* then the ALPN check (alpnOk: alpnProtocol === ALPN_PAM_PROXY); each rejects
\* and returns, neither touches the socket.
GatewayVerdict(authorized, alpnOk) ==
  IF ~authorized THEN "unauthorized"
  ELSE IF ~alpnOk THEN "alpn" ELSE "ok"

\* gatewayConn "secureConnect".
GatewaySecureConnect(c, authorized, alpnOk) ==
  /\ procAlive
  /\ chan[c].pc = "gateway"
  /\ chan[c].gatewaySock = "connecting"
  /\ chan' = Upd(c, AfterGateway([chan[c] EXCEPT !.gatewaySock = "open",
                                                 !.gatewayPeer = Peer(authorized)],
                                 GatewayVerdict(authorized, alpnOk)))
  /\ UNCHANGED << hook, cache, dial, call, now, sessStatus, expiresAt, store, procAlive >>

GatewayError(c) ==
  /\ procAlive
  /\ chan[c].pc = "gateway"
  /\ chan[c].gatewaySock = "connecting"
  /\ chan' = Upd(c, AfterGateway([chan[c] EXCEPT !.gatewaySock = "destroyed",
                                                 !.gatewayTimer = FALSE], "error"))
  /\ UNCHANGED << hook, cache, dial, call, now, sessStatus, expiresAt, store, procAlive >>

GatewayTimeout(c) ==
  /\ procAlive
  /\ chan[c].gatewayTimer
  /\ chan[c].gatewaySock \in {"connecting", "open"}
  /\ LET destroyed == [chan[c] EXCEPT !.gatewaySock = "destroyed",
                                      !.gatewayTimer = FALSE]
     IN chan' = Upd(c, IF chan[c].gatewayResult = "pending"
                         THEN AfterGateway(destroyed, "timeout")
                         ELSE destroyed)
  /\ UNCHANGED << hook, cache, dial, call, now, sessStatus, expiresAt, store, procAlive >>

\* store.user.findById resolved: the message and close listeners are installed.
UserReturns(c) ==
  /\ procAlive
  /\ chan[c].pc = "user"
  /\ chan' = Upd(c, [chan[c] EXCEPT !.pc = "ready"])
  /\ UNCHANGED << hook, cache, dial, call, now, sessStatus, expiresAt, store, procAlive >>

\* What the runtime does with an error that escaped a listener of channel c.
Escapes(c, rec, crash) ==
  /\ procAlive' = ~crash
  /\ chan' = IF crash THEN ProcessExit(Upd(c, rec)) ELSE Upd(c, rec)

\* ------------------------------------------------------------ socket.on("message")
MessageKinds == {"valid", "invalid"}

\* An inbound frame: whether its text is JSON, and the fields the schema reads
\* (query by its length; options.maxRows and options.timeout are optional).
Frame(json, type, qlen, maxRows, timeout) ==
  [json |-> json, type |-> type, qlen |-> qlen,
   maxRows |-> maxRows, timeout |-> timeout]

\* Frames at and around every bound of WebSocketMessageSchema.
Frames ==
  { Frame(TRUE, "execute_query", 1, Absent, Absent),
    Frame(TRUE, "execute_query", 1, Some(1), Some(1000)),
    Frame(TRUE, "execute_query", 10000, Some(10000), Some(120000)),
    Frame(FALSE, "", 0, Absent, Absent),
    Frame(TRUE, "ping", 1, Absent, Absent),
    Frame(TRUE, "execute_query", 0, Absent, Absent),
    Frame(TRUE, "execute_query", 10001, Absent, Absent),
    Frame(TRUE, "execute_query", 1, Some(0), Absent),
    Frame(TRUE, "execute_query", 1, Some(10001), Absent),
    Frame(TRUE, "execute_query", 1, Absent, Some(999)),
    Frame(TRUE, "execute_query", 1, Absent, Some(120001)) }

InRange(o, lo, hi) == ~IsPresent(o) \/ (o[1] >= lo /\ o[1] <= hi)

SchemaAccepts_OffByOne(f) ==
  /\ f.type = "execute_query"
  /\ f.qlen >= 1 /\ f.qlen <= 10001
  /\ InRange(f.maxRows, 1, 10000)
  /\ InRange(f.timeout, 1000, 120000)

\* WebSocketMessageSchema.parse succeeds.
SchemaAccepts(f) ==
  /\ f.type = "execute_query"
  /\ f.qlen >= 1 /\ f.qlen <= 10000
  /\ InRange(f.maxRows, 1, 10000)
  /\ InRange(f.timeout, 1000, 120000)

\* JSON.parse then WebSocketMessageSchema.parse: either one throws, or the
\* listener goes on to the bridge.
KindOf(f) == IF f.json /\ SchemaAccepts(f) THEN "valid" ELSE "invalid"

\* The listener up to its first await: JSON.parse, WebSocketMessageSchema.parse,
\* then executeQueryThroughGateway is called on gatewayConn.
ReceiveMessage(ch, kind) ==
  [ch EXCEPT !.msgs = Append(@, IF kind = "valid" THEN "executing" ELSE "invalid")]

\* A frame arrives from the browser once the listener is installed (a frame
\* that arrives earlier has no listener and leaves no trace on the server).
\* A parse error is thrown inside the async listener and is unhandled.
OnMessage(c, f, crash) ==
  /\ procAlive
  /\ chan[c].pc = "ready"
  /\ chan[c].socket = "open"
  /\ Len(chan[c].msgs) < MaxMessages
  /\ LET got == ReceiveMessage([chan[c] EXCEPT !.frame = Some(f)], KindOf(f))
     IN IF KindOf(f) = "valid"
          THEN /\ ~crash
               /\ chan' = Upd(c, got)
               /\ UNCHANGED procAlive
          ELSE Escapes(c, got, crash)
  /\ UNCHANGED << hook, cache, dial, call, now, sessStatus, expiresAt, store >>

\* The bridge's finally block has ended its postgres client, whose socket is
\* gatewayConn itself: the socket is ended with it, or left open.
ClientEnded(ch, endsSocket) ==
  [ch EXCEPT !.gatewaySock = IF endsSocket /\ @ = "open" THEN "ended" ELSE @]

\* executeQueryThroughGateway resolved: the listener sends query_result.
QuerySucceeds(ch, i) ==
  [ch EXCEPT !.msgs[i] = "result",
             !.sent = Send(ch, [type |-> "query_result", id |-> i])]

ExecSucceeds(c, i, endsSocket) ==
  /\ procAlive
  /\ i \in Executing(chan[c])
  /\ chan[c].gatewaySock = "open"
  /\ chan' = Upd(c, ClientEnded(QuerySucceeds(chan[c], i), endsSocket))
  /\ UNCHANGED << hook, cache, dial, call, now, sessStatus, expiresAt, store, procAlive >>

\* executeQueryThroughGateway rejected (it rethrows after logging, the finally
\* block ends the postgres client only): the listener has no catch, nothing
\* is sent and the rejection is unhandled.
QueryFails(ch, i) == [ch EXCEPT !.msgs[i] = "failed"]

ExecFails(c, i, endsSocket, crash) ==
  /\ procAlive
  /\ i \in Executing(chan[c])
  /\ endsSocket => chan[c].gatewaySock = "open"
  /\ Escapes(c, ClientEnded(QueryFails(chan[c], i), endsSocket), crash)
  /\ UNCHANGED << hook, cache, dial, call, now, sessStatus, expiresAt, store >>

\* ------------------------------------------------------------ socket.on("close")
ThrowPoints == {"none", "gateway", "relay"}

\* closeLog records each end() call; a call that threw is logged as "...-threw".
Threw(ch) ==
  Len(ch.closeLog) > 0
  /\ ch.closeLog[Len(ch.closeLog)] \in {"gateway-threw", "relay-threw"}

EndGateway(ch, throws) ==
  IF ~ch.gatewayConn THEN ch
  ELSE IF throws THEN [ch EXCEPT !.closeLog = Append(@, "gateway-threw")]
  ELSE [ch EXCEPT !.closeLog = Append(@, "gateway"),
                  !.gatewaySock = IF @ = "open" THEN "ended" ELSE @]

EndRelay(ch, throws) ==
  IF ~ch.relayConn THEN ch
  ELSE IF throws THEN [ch EXCEPT !.closeLog = Append(@, "relay-threw")]
  ELSE [ch EXCEPT !.closeLog = Append(@, "relay"),
                  !.relaySock = IF @ = "open" THEN "ended" ELSE @]

CloseHandler_RelayFirst(ch, throwsAt) ==
  LET r == EndRelay(ch, throwsAt = "relay")
  IN IF Threw(r) THEN r ELSE EndGateway(r, throwsAt = "gateway")

\* The "close" listener has no try/catch: a throw from end() leaves it.
TeardownEscaped(ch) == Threw(ch)

\* gatewayConn.end() then relayConn.end(), with no try/catch around either:
\* a throw from the first skips the second and leaves the listener.
CloseHandler(ch, throwsAt) ==
  LET g == EndGateway(ch, throwsAt = "gateway")
  IN IF Threw(g) THEN g ELSE EndRelay(g, throwsAt = "relay")

\* The browser (or the network) closes the WebSocket; the "close" listener
\* runs if it has been installed.
ClientClose(c, throwsAt, crash) ==
  /\ procAlive
  /\ chan[c].socket = "open"
  /\ LET closed == [chan[c] EXCEPT !.socket = "closed"]
     IN IF chan[c].pc = "ready"
          THEN LET after == CloseHandler(closed, throwsAt)
               IN IF TeardownEscaped(after)
                    THEN Escapes(c, after, crash)
                    ELSE /\ throwsAt = "none" /\ ~crash
                         /\ chan' = Upd(c, after)
                         /\ UNCHANGED procAlive
          ELSE /\ throwsAt = "none" /\ ~crash
               /\ chan' = Upd(c, closed)
               /\ UNCHANGED procAlive
  /\ UNCHANGED << hook, cache, dial, call, now, sessStatus, expiresAt, store >>

\* ------------------------------------------------------------ specification
Next ==
  \/ Tick
  \/ \E s \in SessionIds, h \in RelayHosts : StoreSet(s, h)
  \/ \E s \in SessionIds : StoreDelete(s)
  \/ StoreClear
  \/ \E s \in SessionIds, st \in {"ended", "terminated"} : EndSession(s, st)
  \/ \E c \in Channels, s \in SessionIds, can \in BOOLEAN : Open(c, s, can)
  \/ \E c \in Channels : GetByIdReturns(c)
  \/ \E c \in Channels : PermissionReturns(c)
  \/ \E c \in Channels, authorized \in BOOLEAN : RelaySecureConnect(c, authorized)
  \/ \E c \in Channels : RelayError(c)
  \/ \E c \in Channels : RelayTimeout(c)
  \/ \E c \in Channels, authorized \in BOOLEAN, alpnOk \in BOOLEAN :
       GatewaySecureConnect(c, authorized, alpnOk)
  \/ \E c \in Channels : GatewayError(c)
  \/ \E c \in Channels : GatewayTimeout(c)
  \/ \E c \in Channels : UserReturns(c)
  \/ \E c \in Channels, f \in Frames, crash \in BOOLEAN :
       OnMessage(c, f, crash)
  \/ \E c \in Channels, i \in 1..MaxMessages, endsSocket \in BOOLEAN :
       ExecSucceeds(c, i, endsSocket)
  \/ \E c \in Channels, i \in 1..MaxMessages, endsSocket \in BOOLEAN,
        crash \in BOOLEAN :
       ExecFails(c, i, endsSocket, crash)
  \/ \E c \in Channels, throwsAt \in ThrowPoints, crash \in BOOLEAN :
       ClientClose(c, throwsAt, crash)

Spec == Init /\ [][Next]_vars

\* ------------------------------------------------------------ query bridge
\* executeQueryThroughGateway taken alone: its inputs are drawn from the sets
\* below, the driver's answers are the environment.
DefaultMaxRows == 1000
PreviewLen == 100

\* A text of n characters; character i is written i.
Text(n) == [i \in 1..n |-> i]

Queries == { Text(1), Text(PreviewLen), Text(PreviewLen + 1) }

Credentials ==
  { [username |-> "alice", password |-> "pw-a", database |-> "db"],
    [username |-> "bob", password |-> "pw-b", database |-> "db"] }

\* options.maxRows as the caller passes it.
MaxRowsOptions == { Absent, Some(1), Some(2), Some(10000) }

\* What sql.unsafe resolves with: the array's length and its count property.
\* A statement that returns rows has count = length; one that only changes
\* rows has no rows and the number of changed rows as count; a statement
\* whose completion tag carries no number has neither.
DriverResults ==
  { [length |-> n, count |-> Some(n)] : n \in {0, 1, 2, 1000, 1001} }
    \cup { [length |-> 0, count |-> Some(3)], [length |-> 0, count |-> Absent] }

FailureCauses == {"syntax", "auth", "timeout", "transport"}

Min(a, b) == IF a <= b THEN a ELSE b
Max(a, b) == IF a >= b THEN a ELSE b

\* const { maxRows = 1000 } = options
MaxRowsOf(options) == IF IsPresent(options) THEN options[1] ELSE DefaultMaxRows

Slice_NoLimit(len, end) == len

\* Length of array.slice(0, end) for an array of len elements.
Slice(len, end) == IF end >= 0 THEN Min(end, len) ELSE Max(len + end, 0)

\* result.count ?? result.length
RowCount(result) ==
  IF IsPresent(result.count) THEN result.count[1] ELSE result.length

\* string.substring(0, n)
Substring(str, n) == SubSeq(str, 1, Min(n, Len(str)))

\* The value the try block returns (fields and executionTime left out).
QueryResult(result, options) ==
  [rows |-> Slice(result.length, MaxRowsOf(options)),
   rowCount |-> RowCount(result)]

\* A message is a sequence of parts: string text, or an excerpt of the query.
Lit(str) == [s |-> str]
Excerpt(chars) == [q |-> chars]

\* error.message of what sql.unsafe rejected with: the database's or the
\* driver's own text. PostgreSQL names the role in an authentication failure.
CauseMessage(cause, credentials) ==
  CASE cause = "syntax" -> << Lit("syntax error at or near ...") >>
    [] cause = "auth" ->
         << Lit("password authentication failed for user "),
            Lit(credentials.username) >>
    [] cause = "timeout" ->
         << Lit("canceling statement due to statement timeout") >>
    [] OTHER -> << Lit("write CONNECTION_CLOSED") >>

\* The catch block: what it logs and what it throws.
ErrorLogged(query, cause, credentials) ==
  [database |-> credentials.database,
   error |-> CauseMessage(cause, credentials),
   queryPreview |-> Excerpt(Substring(query, PreviewLen))]

ErrorThrown(cause, credentials) ==
  << Lit("Query execution failed: ") >> \o CauseMessage(cause, credentials)

\* A call up to `await sql.unsafe(query)`: defaults, the postgres client is
\* created with gatewayConn as its socket.
ExecuteQueryThroughGateway(query, credentials, options) ==
  /\ call.pc \in {"idle", "returned", "threw"}
  /\ call.calls < MaxCalls
  /\ call' = [IdleCall EXCEPT !.pc = "unsafe", !.calls = call.calls + 1,
                              !.gatewayConn = call.gatewayConn,
                              !.sql = "open", !.query = query,
                              !.credentials = Some(credentials),
                              !.options = options]
  /\ UNCHANGED << now, sessStatus, expiresAt, store, procAlive, chan, hook,
                  cache, dial >>

\* sql.unsafe resolved: the rest of the try block computes the return value.
UnsafeResolves(result) ==
  /\ call.pc = "unsafe"
  /\ call.gatewayConn = "open"
  /\ call' = [call EXCEPT !.pc = "finally", !.result = Some(result),
                          !.value = Some(QueryResult(result, call.options))]
  /\ UNCHANGED << now, sessStatus, expiresAt, store, procAlive, chan, hook,
                  cache, dial >>

\* sql.unsafe rejected: the catch block logs and rethrows. On a socket that
\* is no longer open the only failure is the transport's.
UnsafeRejects(cause) ==
  /\ call.pc = "unsafe"
  /\ call.gatewayConn # "open" => cause = "transport"
  /\ call' = [call EXCEPT
                !.pc = "finally", !.cause = cause,
                !.gatewayConn = IF cause = "transport" /\ @ = "open"
                                  THEN "lost" ELSE @,
                !.errorLog = Some(ErrorLogged(call.query, cause,
                                              call.credentials[1])),
                !.error = Some(ErrorThrown(cause, call.credentials[1]))]
  /\ UNCHANGED << now, sessStatus, expiresAt, store, procAlive, chan, hook,
                  cache, dial >>

\* The finally block: `await sql.end({ timeout: 5 })` inside its own
\* try/catch, then the call settles. The client holds gatewayConn itself as
\* its socket (socket: () => gatewayConn); the driver is outside this source
\* tree, so ending the client either ends the socket it holds or leaves it,
\* and either resolves or throws (caught and logged).
SqlEnd(endsSocket, endThrows) ==
  /\ call.pc = "finally"
  /\ call' = [call EXCEPT
                !.pc = IF IsPresent(call.value) THEN "returned" ELSE "threw",
                !.sql = IF endThrows THEN "end-failed" ELSE "ended",
                !.gatewayConn = IF endsSocket /\ @ = "open" THEN "ended" ELSE @]
  /\ UNCHANGED << now, sessStatus, expiresAt, store, procAlive, chan, hook,
                  cache, dial >>

InitBridge ==
  /\ now = 0
  /\ sessStatus = [s \in SessionIds |-> "active"]
  /\ expiresAt = [s \in SessionIds |-> Absent]
  /\ store = [s \in SessionIds |-> Absent]
  /\ procAlive = TRUE
  /\ chan = [c \in Channels |-> IdleChannel]
  /\ call = IdleCall
  /\ hook = IdleHook
  /\ cache = IdleCache
  /\ dial = IdleDial

NextBridge ==
  \/ \E query \in Queries, credentials \in Credentials,
        options \in MaxRowsOptions :
       ExecuteQueryThroughGateway(query, credentials, options)
  \/ \E result \in DriverResults : UnsafeResolves(result)
  \/ \E cause \in FailureCauses : UnsafeRejects(cause)
  \/ \E endsSocket \in BOOLEAN, endThrows \in BOOLEAN :
       SqlEnd(endsSocket, endThrows)

SpecBridge == InitBridge /\ [][NextBridge]_vars

\* ------------------------------------------------------------ usePamWebSocket
\* The browser hook taken alone: the server is the environment that opens,
\* fails and closes its sockets and pushes frames.
MAX_RECONNECT_ATTEMPTS == 5
INITIAL_RECONNECT_DELAY == 1000
MAX_RECONNECT_DELAY == 30000

\* Close codes the client can observe: abnormal closure, and the two reasons
\* the route closes with.
CloseCodes == {1006, 4403, 4404}

\* message.type of a frame the server pushes ("other" stands for any other
\* type and for text that is not JSON: both are only logged).
PushTypes == {"connected", "query_result", "query_error", "session_expired",
              "other"}

RECURSIVE Pow2(_)
Pow2(n) == IF n = 0 THEN 1 ELSE 2 * Pow2(n - 1)

ReconnectDelay_Linear(attempts) ==
  Min(INITIAL_RECONNECT_DELAY * (attempts + 1), MAX_RECONNECT_DELAY)

\* Math.min(INITIAL_RECONNECT_DELAY * 2 ** attempts, MAX_RECONNECT_DELAY)
ReconnectDelay(attempts) ==
  Min(INITIAL_RECONNECT_DELAY * Pow2(attempts), MAX_RECONNECT_DELAY)

\* wsRef.current?.readyState === WebSocket.OPEN
RefIsOpen(h) == h.wsRef # 0 /\ h.ws[h.wsRef].readyState = "OPEN"

\* connect(): nothing when the referenced socket is open; otherwise
\* "connecting", then either no token ("disconnected") or a new WebSocket
\* whose handlers are installed and which wsRef now references.
Connect(h, hasToken) ==
  IF RefIsOpen(h) THEN h
  ELSE IF ~hasToken THEN [h EXCEPT !.connectionStatus = "disconnected"]
  ELSE [h EXCEPT !.connectionStatus = "connecting",
                 !.ws = Append(@, [readyState |-> "CONNECTING"]),
                 !.wsRef = Len(h.ws) + 1]

\* ws.close() on socket i.
WsClose(h, i) ==
  [h EXCEPT !.ws[i].readyState =
              IF @ \in {"CONNECTING", "OPEN"} THEN "CLOSING" ELSE @]

\* The mount effect runs (user is present): shouldReconnect = true; connect().
Effect(hasToken) ==
  /\ ~hook.mounted
  /\ hook.effects < MaxEffects
  /\ ~hasToken \/ Len(hook.ws) < MaxSockets
  /\ hook' = Connect([hook EXCEPT !.mounted = TRUE, !.effects = @ + 1,
                                  !.shouldReconnect = TRUE,
                                  !.sawExpired = FALSE], hasToken)
  /\ UNCHANGED << serverVars, cache, dial >>

\* The effect's cleanup (unmount, or a dependency changed and the effect is
\* about to run again): shouldReconnect = false, clearTimeout, ws.close().
Cleanup ==
  /\ hook.mounted
  /\ LET h1 == [hook EXCEPT
                  !.mounted = FALSE, !.shouldReconnect = FALSE,
                  !.timers = [t \in DOMAIN @ |->
                                IF t = hook.reconnectTimeoutRef
                                   /\ @[t].state = "pending"
                                  THEN [@[t] EXCEPT !.state = "cleared"]
                                  ELSE @[t]]]
     IN hook' = IF h1.wsRef # 0 THEN WsClose(h1, h1.wsRef) ELSE h1
  /\ UNCHANGED << serverVars, cache, dial >>

\* ws.onopen of socket i.
WsOpen(i) ==
  /\ i \in 1..Len(hook.ws)
  /\ hook.ws[i].readyState = "CONNECTING"
  /\ hook' = [hook EXCEPT !.ws[i].readyState = "OPEN",
                          !.connectionStatus = "connected",
                          !.reconnectAttempts = 0]
  /\ UNCHANGED << serverVars, cache, dial >>

\* ws.onmessage of socket i for a frame of the given type.
OnPush(h, i, type) ==
  CASE type = "connected" -> [h EXCEPT !.connectionStatus = "connected"]
    [] type = "query_result" ->
         [h EXCEPT !.lastResult = "data", !.lastError = "null",
                   !.isExecuting = FALSE]
    [] type = "query_error" ->
         [h EXCEPT !.lastError = "error", !.lastResult = "null",
                   !.isExecuting = FALSE]
    [] type = "session_expired" ->
         WsClose([h EXCEPT !.lastError = "Session expired",
                           !.isExecuting = FALSE,
                           !.shouldReconnect = FALSE,
                           !.sawExpired = TRUE], i)
    [] OTHER -> h

WsMessage(i, type) ==
  /\ i \in 1..Len(hook.ws)
  /\ hook.ws[i].readyState = "OPEN"
  /\ hook' = OnPush(hook, i, type)
  /\ UNCHANGED << serverVars, cache, dial >>

\* ws.onerror
OnError(h) == [h EXCEPT !.connectionStatus = "disconnected"]

OnClose_NoLimit(h) ==
  LET h1 == [h EXCEPT !.connectionStatus = "disconnected", !.wsRef = 0]
  IN IF h1.shouldReconnect
       THEN [h1 EXCEPT
               !.connectionStatus = "reconnecting",
               !.timers = Append(@, [delay |-> ReconnectDelay(h1.reconnectAttempts),
                                     attempt |-> h1.reconnectAttempts,
                                     state |-> "pending"]),
               !.reconnectTimeoutRef = Len(h1.timers) + 1]
       ELSE h1

\* ws.onclose: "disconnected", wsRef cleared, and a reconnect timer when
\* reconnecting is allowed and attempts remain. The close event's code is
\* not looked at.
OnClose(h) ==
  LET h1 == [h EXCEPT !.connectionStatus = "disconnected", !.wsRef = 0]
  IN IF h1.shouldReconnect /\ h1.reconnectAttempts < MAX_RECONNECT_ATTEMPTS
       THEN [h1 EXCEPT
               !.connectionStatus = "reconnecting",
               !.timers = Append(@, [delay |-> ReconnectDelay(h1.reconnectAttempts),
                                     attempt |-> h1.reconnectAttempts,
                                     state |-> "pending"]),
               !.reconnectTimeoutRef = Len(h1.timers) + 1]
       ELSE h1

\* Socket i is closed with the given code; when the connection failed the
\* error event is dispatched first, in the same task.
WsClosed(i, code, failed) ==
  /\ i \in 1..Len(hook.ws)
  /\ hook.ws[i].readyState # "CLOSED"
  /\ hook.ws[i].readyState = "CONNECTING" => failed /\ code = 1006
  /\ LET h0 == [hook EXCEPT !.ws[i].readyState = "CLOSED",
                            !.lastCloseCode = code]
     IN hook' = OnClose(IF failed THEN OnError(h0) ELSE h0)
  /\ UNCHANGED << serverVars, cache, dial >>

\* The reconnect timer t fires: reconnectAttempts += 1; connect().
TimerFires(t, hasToken) ==
  /\ t \in 1..Len(hook.timers)
  /\ hook.timers[t].state = "pending"
  /\ ~hasToken \/ Len(hook.ws) < MaxSockets
  /\ hook' = Connect([hook EXCEPT !.timers[t].state = "fired",
                                  !.reconnectAttempts = @ + 1], hasToken)
  /\ UNCHANGED << serverVars, cache, dial >>

\* executeQuery(query, options) called by the component.
Submit_NoCheck(h) ==
  [h EXCEPT !.submits = @ + 1, !.isExecuting = TRUE, !.lastError = "null",
            !.lastResult = "null", !.sends = @ + 1]

Submit(h) ==
  IF ~RefIsOpen(h)
    THEN [h EXCEPT !.submits = @ + 1, !.lastError = "WebSocket not connected"]
    ELSE [h EXCEPT !.submits = @ + 1, !.isExecuting = TRUE,
                   !.lastError = "null", !.lastResult = "null",
                   !.sends = @ + 1]

ExecuteQuery ==
  /\ hook.mounted
  /\ hook.submits < MaxSubmits
  /\ hook' = Submit(hook)
  /\ UNCHANGED << serverVars, cache, dial >>

InitClient == AtRest /\ chan = [c \in Channels |-> IdleChannel]

\* The connection life cycle: mounting, sockets, reconnect timers. Only the
\* pushes that touch the life cycle are delivered (the others change
\* lastResult, lastError and isExecuting alone), and every close is abnormal
\* (onclose does not read the code).
LifecyclePushes == {"connected", "session_expired"}

NextClient ==
  \/ \E hasToken \in BOOLEAN : Effect(hasToken)
  \/ Cleanup
  \/ \E i \in 1..MaxSockets : WsOpen(i)
  \/ \E i \in 1..MaxSockets, type \in LifecyclePushes : WsMessage(i, type)
  \/ \E i \in 1..MaxSockets, failed \in BOOLEAN : WsClosed(i, 1006, failed)
  \/ \E t \in 1..MaxSockets, hasToken \in BOOLEAN : TimerFires(t, hasToken)

SpecClient == InitClient /\ [][NextClient]_vars

\* Submitting queries and being closed by the server: every push type, every
\* close code and executeQuery, over fewer sockets.
NextQuery ==
  \/ \E hasToken \in BOOLEAN :
       Len(hook.ws) < QuerySockets /\ Effect(hasToken)
  \/ Cleanup
  \/ \E i \in 1..QuerySockets : WsOpen(i)
  \/ \E i \in 1..QuerySockets, type \in PushTypes : WsMessage(i, type)
  \/ \E i \in 1..QuerySockets, code \in CloseCodes, failed \in BOOLEAN :
       WsClosed(i, code, failed)
  \/ \E t \in 1..QuerySockets, hasToken \in BOOLEAN :
       Len(hook.ws) < QuerySockets /\ TimerFires(t, hasToken)
  \/ ExecuteQuery

SpecQuery == InitClient /\ [][NextQuery]_vars

\* An event that settles a query in flight on some socket: its result, its
\* error, or the close of the socket.
QueryOutcome ==
  \E i \in 1..QuerySockets :
    \/ WsMessage(i, "query_result")
    \/ WsMessage(i, "query_error")
    \/ \E code \in CloseCodes, failed \in BOOLEAN : WsClosed(i, code, failed)

\* Every socket that is not closed eventually delivers a result or an error
\* or is closed.
FairQuery == SpecQuery /\ WF_vars(QueryOutcome)

\* ------------------------------------------------------ createRelayConnection
\* createRelayConnection taken alone, from its call to tls.connect or to the
\* thrown error. Addresses are all texts of at most MaxHostLen characters
\* over a letter, the colon and two digits.
DialChars == { "r", ":", "8", "3" }

RECURSIVE TextsUpTo(_)
TextsUpTo(n) ==
  IF n = 0 THEN { << >> }
  ELSE LET shorter == TextsUpTo(n - 1)
       IN shorter \cup { Append(t, ch) : t \in { u \in shorter : Len(u) = n - 1 },
                                         ch \in DialChars }

DialHosts == TextsUpTo(MaxHostLen)

DefaultPort == 8443

DigitChars == << "0", "1", "2", "3", "4", "5", "6", "7", "8", "9" >>

DigitValue(d) == (CHOOSE n \in 1..10 : DigitChars[n] = d) - 1

\* parseInt(text, 10) on a text that starts with a digit: the value of the
\* longest prefix of decimal digits; what follows the prefix is ignored.
RECURSIVE ParseDigits(_, _)
ParseDigits(text, acc) ==
  IF Len(text) = 0 \/ text[1] \notin Digits THEN acc
  ELSE ParseDigits(Tail(text), 10 * acc + DigitValue(text[1]))

ParseInt(text) == ParseDigits(text, 0)

\* parts[0] of relayHost.split(":").
HostSegment(h) == SubSeq(h, 1, IndexOfColon(h) - 1)

\* Lines 25-54: parse the address, throw or call tls.connect.
CreateRelayConnection(h) ==
  /\ dial.pc = "idle"
  /\ dial' =
       IF IndexOfColon(h) # 0
         THEN IF PortIsNaN(h)
                THEN [ pc |-> "threw", relayHost |-> Some(h), host |-> Absent,
                       port |-> 0, error |-> "Error" ]
                ELSE [ pc |-> "connecting", relayHost |-> Some(h),
                       host |-> Some(HostSegment(h)),
                       port |-> ParseInt(PortSegment(h)), error |-> "" ]
         ELSE [ pc |-> "connecting", relayHost |-> Some(h), host |-> Some(h),
                port |-> DefaultPort, error |-> "" ]
  /\ UNCHANGED << serverVars, hook, cache >>

\* The call is over (it threw, or its handshake promise settled); the next
\* call starts afresh.
DialSettles ==
  /\ dial.pc # "idle"
  /\ dial' = IdleDial
  /\ UNCHANGED << serverVars, hook, cache >>

InitDial == AtRest /\ chan = [c \in Channels |-> IdleChannel]

NextDial ==
  \/ \E h \in DialHosts : CreateRelayConnection(h)
  \/ DialSettles

SpecDial == InitDial /\ [][NextDial]_vars

\* ------------------------------------------- SessionAccessDataStore, alone
\* The store class taken alone. Its Map is a sequence of entries in
\* insertion order; cache.log is the history of the mutating calls.
CacheIds == { "s1", "s2" }

Bundles == { "b1", "b2" }

MapIndex(m, k) ==
  IF \E i \in 1..Len(m) : m[i].key = k
    THEN CHOOSE i \in 1..Len(m) : m[i].key = k /\ \A j \in 1..(i - 1) : m[j].key # k
    ELSE 0

MapSet_Appends(m, k, v) == Append(m, [ key |-> k, value |-> v ])

\* Map.prototype.set: replaces the value of an existing key in place,
\* appends a new entry otherwise.
MapSet(m, k, v) ==
  IF MapIndex(m, k) # 0
    THEN [m EXCEPT ![MapIndex(m, k)] = [ key |-> k, value |-> v ]]
    ELSE Append(m, [ key |-> k, value |-> v ])

MapDelete(m, k) ==
  LET i == MapIndex(m, k)
  IN IF i = 0 THEN m ELSE SubSeq(m, 1, i - 1) \o SubSeq(m, i + 1, Len(m))

MapGet(m, k) == IF MapIndex(m, k) = 0 THEN Absent ELSE Some(m[MapIndex(m, k)].value)

MapHas(m, k) == MapIndex(m, k) # 0

MapKeys(m) == [ i \in 1..Len(m) |-> m[i].key ]

MapSize(m) == Len(m)

CacheSet(k, v) ==
  /\ Len(cache.log) < MaxOps
  /\ cache' = [ map |-> MapSet(cache.map, k, v),
                log |-> Append(cache.log, [ op |-> "set", key |-> k, value |-> v ]) ]
  /\ UNCHANGED << serverVars, hook, dial >>

CacheDelete(k) ==
  /\ Len(cache.log) < MaxOps
  /\ cache' = [ map |-> MapDelete(cache.map, k),
                log |-> Append(cache.log, [ op |-> "delete", key |-> k, value |-> "" ]) ]
  /\ UNCHANGED << serverVars, hook, dial >>

CacheClear ==
  /\ Len(cache.log) < MaxOps
  /\ cache' = [ map |-> << >>,
                log |-> Append(cache.log, [ op |-> "clear", key |-> "", value |-> "" ]) ]
  /\ UNCHANGED << serverVars, hook, dial >>

CacheGet(k) == MapGet(cache.map, k)

CacheHas(k) == MapHas(cache.map, k)

CacheKeys == MapKeys(cache.map)

CacheSize == MapSize(cache.map)

InitCache == AtRest /\ chan = [c \in Channels |-> IdleChannel]

NextCache ==
  \/ \E k \in CacheIds, v \in Bundles : CacheSet(k, v)
  \/ \E k \in CacheIds : CacheDelete(k)
  \/ CacheClear

SpecCache == InitCache /\ [][NextCache]_vars

\* ------------------------------------------------------------ the tunnel
\* The tunnel of a channel from establishment to teardown, for two channels
\* that the browser opens on the same session (a reconnect overlapping the
\* old channel, or a duplicate), with the loss of the relay transport.
TunnelChannels == { "ws", "ws2" }

RelayLost_KeepsGateway(c) ==
  /\ procAlive
  /\ chan[c].relaySock = "open"
  /\ chan' = Upd(c, [chan[c] EXCEPT !.relaySock = "lost"])
  /\ UNCHANGED << hook, cache, dial, call, now, sessStatus, expiresAt, store, procAlive >>

\* The relay connection drops (peer reset, network). The gateway socket was
\* created with `socket: relayConn`, so it goes with the relay: a handshake
\* still under way fails with "error", an established socket is lost.
RelayLost(c) ==
  /\ procAlive
  /\ chan[c].relaySock = "open"
  /\ LET lost == [chan[c] EXCEPT !.relaySock = "lost"]
     IN chan' = Upd(c,
          IF chan[c].pc = "gateway" /\ chan[c].gatewaySock = "connecting"
            THEN AfterGateway([lost EXCEPT !.gatewaySock = "destroyed",
                                           !.gatewayTimer = FALSE], "error")
            ELSE [lost EXCEPT !.gatewaySock =
                                 IF @ \in {"connecting", "open"} THEN "lost" ELSE @])
  /\ UNCHANGED << hook, cache, dial, call, now, sessStatus, expiresAt, store, procAlive >>

\* An active session whose access data is in the store; no channel opened.
InitTunnel ==
  /\ now = 0
  /\ sessStatus = [s \in SessionIds |-> "active"]
  /\ expiresAt = [s \in SessionIds |-> Absent]
  /\ store \in [SessionIds -> { Some(h) : h \in RelayHosts }]
  /\ procAlive = TRUE
  /\ chan = [c \in TunnelChannels |-> IdleChannel]
  /\ call = IdleCall
  /\ hook = IdleHook
  /\ cache = IdleCache
  /\ dial = IdleDial

NextTunnel ==
  \/ \E c \in TunnelChannels, s \in SessionIds : Open(c, s, TRUE)
  \/ \E c \in TunnelChannels : GetByIdReturns(c)
  \/ \E c \in TunnelChannels : PermissionReturns(c)
  \/ \E c \in TunnelChannels, authorized \in BOOLEAN : RelaySecureConnect(c, authorized)
  \/ \E c \in TunnelChannels : RelayError(c)
  \/ \E c \in TunnelChannels : RelayTimeout(c)
  \/ \E c \in TunnelChannels, authorized \in BOOLEAN, alpnOk \in BOOLEAN :
       GatewaySecureConnect(c, authorized, alpnOk)
  \/ \E c \in TunnelChannels : GatewayError(c)
  \/ \E c \in TunnelChannels : GatewayTimeout(c)
  \/ \E c \in TunnelChannels : UserReturns(c)
  \/ \E c \in TunnelChannels, throwsAt \in ThrowPoints, crash \in BOOLEAN :
       ClientClose(c, throwsAt, crash)
  \/ \E c \in TunnelChannels : RelayLost(c)

SpecTunnel == InitTunnel /\ [][NextTunnel]_vars

\* Every step of the handler that is enabled is eventually run: pending
\* promises settle, handshakes end one way or another, armed timers fire,
\* the browser closes the channel. The loss of an established relay
\* transport is not required to happen.
FairTunnel ==
  /\ SpecTunnel
  /\ \A c \in TunnelChannels :
       /\ WF_vars(GetByIdReturns(c))
       /\ WF_vars(PermissionReturns(c))
       /\ WF_vars(RelayTimeout(c))
       /\ WF_vars(GatewayTimeout(c))
       /\ WF_vars(UserReturns(c))
       /\ WF_vars(\E throwsAt \in ThrowPoints, crash \in BOOLEAN :
                    ClientClose(c, throwsAt, crash))

\* ------------------------------------------------- the hook and the route
\* The first socket of the hook and the channel the route serves for it,
\* from the mount to the close of that socket. chan["ws"].pushed counts the
\* frames of `sent` the browser has received; chan["ws"].unheard counts the
\* frames that reached the server's socket while no "message" listener was
\* installed on it (the emitter has no one to give them to).
LinkChannel == "ws"

\* The frame executeQuery sends: maxRows is options?.maxRows || 1000.
ClientFrame == Frame(TRUE, "execute_query", 1, Some(1000), Absent)

\* Frames the hook has sent that have not reached the server's socket yet.
InFlight ==
  hook.sends - Len(chan[LinkChannel].msgs) - chan[LinkChannel].unheard

\* The component mounts: the effect runs and connect() creates the socket.
LinkConnect ==
  /\ Len(hook.ws) = 0
  /\ Effect(TRUE)

\* The upgrade request reaches the server: the route handler starts.
LinkAccept(s, can) ==
  /\ Len(hook.ws) = 1
  /\ hook.ws[1].readyState = "CONNECTING"
  /\ Open(LinkChannel, s, can)

\* The upgrade response reaches the browser: ws.onopen.
LinkOpen ==
  /\ chan[LinkChannel].pc # "idle"
  /\ WsOpen(1)

\* The next frame the server sent reaches the browser: ws.onmessage.
LinkPush ==
  LET ch == chan[LinkChannel]
  IN /\ Len(hook.ws) = 1
     /\ hook.ws[1].readyState = "OPEN"
     /\ ch.pushed < Len(ch.sent)
     /\ hook' = OnPush(hook, 1, ch.sent[ch.pushed + 1].type)
     /\ chan' = Upd(LinkChannel, [ch EXCEPT !.pushed = @ + 1])
     /\ UNCHANGED << now, sessStatus, expiresAt, store, procAlive, call, cache, dial >>

\* A frame of the hook reaches the server's socket and the "message"
\* listener runs.
LinkFrame(crash) ==
  /\ InFlight > 0
  /\ OnMessage(LinkChannel, ClientFrame, crash)

\* A frame of the hook reaches the server's socket before socket.on("message")
\* was called: the "message" event has no listener.
LinkUnheard ==
  /\ InFlight > 0
  /\ procAlive
  /\ chan[LinkChannel].socket = "open"
  /\ chan[LinkChannel].pc # "ready"
  /\ chan' = Upd(LinkChannel, [chan[LinkChannel] EXCEPT !.unheard = @ + 1])
  /\ UNCHANGED << hook, cache, dial, call, now, sessStatus, expiresAt, store, procAlive >>

\* The server closed or terminated the socket: after the frames sent before
\* it, the close reaches the browser with the code the route gave, if any.
LinkClosed ==
  LET ch == chan[LinkChannel]
  IN /\ ch.socket = "closed"
     /\ Len(hook.ws) = 1
     /\ hook.ws[1].readyState = "OPEN"
     /\ ch.pushed = Len(ch.sent)
     /\ WsClosed(1, IF ch.rejectCode \in CloseCodes THEN ch.rejectCode ELSE 1006,
                 FALSE)

\* An active session with its bundle in the store; nothing mounted.
InitLink ==
  /\ now = 0
  /\ sessStatus = [s \in SessionIds |-> "active"]
  /\ expiresAt = [s \in SessionIds |-> Absent]
  /\ store \in [SessionIds -> { Some(h) : h \in RelayHosts }]
  /\ procAlive = TRUE
  /\ chan = [c \in Channels |-> IdleChannel]
  /\ call = IdleCall
  /\ hook = IdleHook
  /\ cache = IdleCache
  /\ dial = IdleDial

NextLink ==
  \/ LinkConnect
  \/ \E s \in SessionIds, can \in BOOLEAN : LinkAccept(s, can)
  \/ LinkOpen
  \/ GetByIdReturns(LinkChannel)
  \/ PermissionReturns(LinkChannel)
  \/ \E authorized \in BOOLEAN : RelaySecureConnect(LinkChannel, authorized)
  \/ RelayError(LinkChannel)
  \/ RelayTimeout(LinkChannel)
  \/ \E authorized \in BOOLEAN, alpnOk \in BOOLEAN :
       GatewaySecureConnect(LinkChannel, authorized, alpnOk)
  \/ GatewayError(LinkChannel)
  \/ GatewayTimeout(LinkChannel)
  \/ UserReturns(LinkChannel)
  \/ LinkPush
  \/ ExecuteQuery
  \/ \E crash \in BOOLEAN : LinkFrame(crash)
  \/ LinkUnheard
  \/ \E i \in 1..MaxMessages, endsSocket \in BOOLEAN :
       ExecSucceeds(LinkChannel, i, endsSocket)
  \/ \E i \in 1..MaxMessages, endsSocket \in BOOLEAN, crash \in BOOLEAN :
       ExecFails(LinkChannel, i, endsSocket, crash)
  \/ LinkClosed

SpecLink == InitLink /\ [][NextLink]_vars

\* ================================================================== claims
ConnectFailures == {"config", "unauthorized", "error", "timeout", "alpn"}

NoTunnelAttempt(ch) ==
  /\ ch.relayAttempts = 0 /\ ch.gatewayAttempts = 0
  /\ ch.relaySock = "none" /\ ch.gatewaySock = "none"

InvalidAtValidation(s) ==
  \/ sessStatus[s] \in {"ended", "terminated"}
  \/ (Len(expiresAt[s]) = 1 /\ expiresAt[s][1] < now)

SessionRejected(ch) ==
  /\ ch.pc = "returned" /\ ch.socket = "closed" /\ ch.rejectCode = 4404
  /\ ch.rejectReason \in {"Session has ended", "Session has expired"}

\* C1: when the handler validates a session that is ended, terminated or past
\* its expiry timestamp, it closes the channel with the session-gone code 4404
\* and returns; on a channel rejected this way no relay or gateway connect is
\* ever attempted.
C1_RejectedBeforeTunnel ==
  /\ [][\A c \in Channels :
          (/\ chan[c].pc = "getById" /\ chan'[c].pc # "getById"
           /\ InvalidAtValidation(chan[c].sessionId))
          => SessionRejected(chan'[c])]_vars
  /\ [](\A c \in Channels :
          SessionRejected(chan[c]) => NoTunnelAttempt(chan[c]))

C1_Witness ==
  \E c \in Channels :
    /\ SessionRejected(chan[c])
    /\ chan[c].rejectReason = "Session has expired"
    /\ sessStatus[chan[c].sessionId] = "active"

\* C2: the gateway connect is attempted only after the relay connect succeeded;
\* after any relay-connect failure (configuration, authorization, transport
\* error, timeout) there is no gateway connect attempt on the channel.
C2_GatewayOnlyAfterRelay ==
  \A c \in Channels :
    /\ chan[c].relayResult \in ConnectFailures
         => /\ chan[c].gatewayAttempts = 0
            /\ chan[c].gatewaySock = "none"
            /\ chan[c].gatewayResult = "none"
    /\ chan[c].gatewayAttempts > 0 => chan[c].relayResult = "ok"

C2_Witness ==
  \E c \in Channels :
    /\ chan[c].relayResult = "timeout"
    /\ chan[c].relayAttempts = 1
    /\ chan[c].pc = "failed"

\* C3 (as claimed): a query that fails on an open Ready channel leaves the
\* channel Ready, its WebSocket open and both tunnel legs open.
C3_FailedQueryKeepsChannel ==
  [][\A c \in Channels : \A i \in 1..Len(chan[c].msgs) :
       (/\ chan[c].socket = "open" /\ chan[c].pc = "ready"
        /\ chan[c].msgs[i] = "executing" /\ chan'[c].msgs[i] = "failed")
       => /\ chan'[c].socket = "open" /\ chan'[c].pc = "ready"
          /\ chan'[c].gatewaySock = "open" /\ chan'[c].relaySock = "open"]_vars

\* C4 (as claimed): at most one query execution is in progress per channel.
C4_AtMostOneExecuting ==
  \A c \in Channels : Cardinality(Executing(chan[c])) <= 1

\* C5 (as claimed): a message that arrives while a query is executing is
\* answered with a busy error and is not executed.
C5_SecondRejectedBusy ==
  [][\A c \in Channels :
       (/\ Executing(chan[c]) # {}
        /\ Len(chan'[c].msgs) = Len(chan[c].msgs) + 1)
       => /\ chan'[c].msgs[Len(chan'[c].msgs)] # "executing"
          /\ Len(chan'[c].sent) = Len(chan[c].sent) + 1
          /\ chan'[c].sent[Len(chan'[c].sent)].type = "busy_error"]_vars

\* C6: in the close handling the gateway transport is ended strictly before
\* the relay transport: every end of the relay is preceded by a completed end
\* of the gateway, and the relay is never ended while the gateway is open.
C6_GatewayClosedBeforeRelay ==
  \A c \in Channels :
    /\ \A i \in 1..Len(chan[c].closeLog) :
         chan[c].closeLog[i] \in {"relay", "relay-threw"}
           => \E j \in 1..(i - 1) : chan[c].closeLog[j] = "gateway"
    /\ chan[c].relaySock = "ended" => chan[c].gatewaySock # "open"

C6_Witness ==
  \E c \in Channels :
    /\ chan[c].closeLog = << "gateway", "relay" >>
    /\ chan[c].gatewaySock = "ended" /\ chan[c].relaySock = "ended"

\* C7 (as claimed): once the close handling has started, closing the relay
\* transport is attempted even if closing the gateway transport failed, and
\* no teardown failure leaves the close handling.
C7_TeardownExceptionSafe ==
  \A c \in Channels :
    Len(chan[c].closeLog) > 0
      => /\ \E i \in 1..Len(chan[c].closeLog) :
              chan[c].closeLog[i] \in {"relay", "relay-threw"}
         /\ ~TeardownEscaped(chan[c])

Forbidden(ch) ==
  /\ ch.pc = "returned" /\ ch.socket = "closed" /\ ch.rejectCode = 4403
  /\ ch.rejectReason = "Forbidden: No permission to access session"

\* C8 (as claimed): every caller without the read capability is rejected with
\* the forbidden close reason, with no bundle lookup and no tunnel attempt.
C8_ForbiddenAlways ==
  \A c \in Channels :
    (~chan[c].canRead /\ chan[c].pc \notin {"idle", "getById", "permission"})
      => /\ Forbidden(chan[c])
         /\ chan[c].accessData = Absent
         /\ NoTunnelAttempt(chan[c])

\* C8 (amended): a caller without the read capability whose session passed the
\* ended/expired validation is rejected with the forbidden close code 4403,
\* which differs from the session-gone code 4404; a caller without the read
\* capability whose session failed that validation is rejected with 4404; in
\* both cases the bundle is not looked up and no tunnel connect is attempted.
C8_ForbiddenAfterValidation ==
  /\ [][\A c \in Channels :
          (/\ chan[c].pc = "permission" /\ chan'[c].pc # "permission"
           /\ ~chan[c].canRead)
          => Forbidden(chan'[c])]_vars
  /\ [](\A c \in Channels :
          (~chan[c].canRead /\ chan[c].pc \notin {"idle", "getById", "permission"})
            => /\ Forbidden(chan[c]) \/ SessionRejected(chan[c])
               /\ ~(Forbidden(chan[c]) /\ SessionRejected(chan[c]))
               /\ chan[c].accessData = Absent
               /\ NoTunnelAttempt(chan[c]))

C8_Witness ==
  \E c \in Channels : Forbidden(chan[c]) /\ ~chan[c].canRead

DataNotFound(ch) ==
  /\ ch.pc = "returned" /\ ch.socket = "closed" /\ ch.rejectCode = 4404
  /\ ch.rejectReason = "Session data not found or expired"

\* C9: when the handler reaches the bundle lookup and the store holds no
\* access data for the session id (never set, deleted or cleared), the channel
\* is closed with the "Session data not found or expired" reason and no
\* tunnel connect is attempted.
C9_AbsentBundleRejected ==
  /\ [][\A c \in Channels :
          (/\ chan[c].pc = "permission" /\ chan'[c].pc # "permission"
           /\ chan[c].canRead /\ store[chan[c].sessionId] = << >>)
          => DataNotFound(chan'[c])]_vars
  /\ [](\A c \in Channels :
          DataNotFound(chan[c])
            => chan[c].accessData = << >> /\ NoTunnelAttempt(chan[c]))

C9_Witness ==
  \E c \in Channels : DataNotFound(chan[c]) /\ chan[c].canRead

\* C10: after a failed relay or gateway connect (configuration, authorization,
\* transport error, timeout, protocol mismatch) the handler has failed, the
\* browser WebSocket is closed, no "connected" acknowledgement was sent and no
\* query was received for execution.
C10_ConnectFailureAborts ==
  \A c \in Channels :
    (chan[c].relayResult \in ConnectFailures
       \/ chan[c].gatewayResult \in ConnectFailures)
      => /\ chan[c].pc = "failed"
         /\ chan[c].socket = "closed"
         /\ chan[c].sent = << >>
         /\ chan[c].msgs = << >>
         /\ chan[c].rejectCode = 0

C10_Witness ==
  \E c \in Channels :
    /\ chan[c].gatewayResult = "alpn"
    /\ chan[c].relayResult = "ok"
    /\ chan[c].pc = "failed"

Acked(ch) == \E k \in 1..Len(ch.sent) : ch.sent[k].type = "connected"

\* C11: the "connected" acknowledgement is on the wire only after both the
\* relay and the gateway connect of the channel succeeded, it is the first
\* frame the server sends, and a frame is taken for execution only on a
\* channel that has sent it.
C11_AckAfterBothLegs ==
  \A c \in Channels :
    /\ Acked(chan[c])
         => /\ chan[c].relayResult = "ok" /\ chan[c].gatewayResult = "ok"
            /\ chan[c].relayConn /\ chan[c].gatewayConn
            /\ chan[c].sent[1].type = "connected"
    /\ chan[c].msgs # << >> => Acked(chan[c])
    /\ chan[c].sent # << >> => Acked(chan[c])

C11_Witness ==
  \E c \in Channels :
    /\ Acked(chan[c])
    /\ \E i \in 1..Len(chan[c].msgs) : chan[c].msgs[i] = "result"

LastMsg(ch) == ch.msgs[Len(ch.msgs)]

\* C12: an executed query is answered by exactly one frame on the channel,
\* query_result when the bridge resolved and query_error when it rejected
\* (stated for a step that settles query i while the WebSocket is open).
C12_OneResponsePerQuery ==
  [][\A c \in Channels : \A i \in Executing(chan[c]) :
       (chan[c].socket = "open" /\ i \notin Executing(chan'[c]))
         => \/ /\ chan'[c].msgs[i] = "result"
               /\ chan'[c].sent =
                    Append(chan[c].sent, [type |-> "query_result", id |-> i])
            \/ /\ chan'[c].msgs[i] = "failed"
               /\ chan'[c].sent =
                    Append(chan[c].sent, [type |-> "query_error", id |-> i])]_vars

\* The channel schema as the claim words it.
Conforms(f) ==
  /\ f.json
  /\ f.type = "execute_query"
  /\ f.qlen \in 1..10000
  /\ (f.maxRows = << >> \/ f.maxRows[1] \in 1..10000)
  /\ (f.timeout = << >> \/ f.timeout[1] \in 1000..120000)

C14_MalformedAnsweredChannelKept ==
  [][\A c \in Channels :
       (Len(chan'[c].msgs) = Len(chan[c].msgs) + 1
          /\ LastMsg(chan'[c]) = "invalid")
         => /\ chan'[c].sent =
                 Append(chan[c].sent,
                        [type |-> "validation_error", id |-> Len(chan'[c].msgs)])
            /\ chan'[c].socket = "open"
            /\ chan'[c].pc = "ready"
            /\ chan'[c].gatewaySock = chan[c].gatewaySock
            /\ chan'[c].relaySock = chan[c].relaySock]_vars

\* C18: after an ALPN mismatch on the gateway leg the connect has failed and
\* no established gateway transport remains.
C18_MismatchLeavesNoTransport ==
  \A c \in Channels :
    chan[c].gatewayResult = "alpn"
      => /\ ~chan[c].gatewayConn
         /\ chan[c].gatewaySock # "open"

\* C19: a leg hands back its socket only when the handshake completed with an
\* authorized peer; a handshake that completed with an unauthorized peer makes
\* the connect fail as unauthorized, with no handle and the handler rejected.
C19_HandleOnlyIfAuthorized ==
  \A c \in Channels :
    /\ chan[c].relayConn => chan[c].relayPeer = "authorized"
    /\ chan[c].gatewayConn => chan[c].gatewayPeer = "authorized"
    /\ chan[c].relayPeer = "unauthorized"
         => /\ chan[c].relayResult = "unauthorized"
            /\ ~chan[c].relayConn /\ ~chan[c].gatewayConn
            /\ chan[c].pc = "failed"
    /\ chan[c].gatewayPeer = "unauthorized"
         => /\ chan[c].gatewayResult = "unauthorized"
            /\ ~chan[c].gatewayConn
            /\ chan[c].pc = "failed"

C19_Witness ==
  \E c \in Channels :
    /\ chan[c].relayConn
    /\ chan[c].gatewayPeer = "unauthorized"
    /\ chan[c].pc = "failed"

\* C20: a leg that returned its socket has its handshake timer disarmed and is
\* never destroyed by it; a timer that expires while the handshake is pending
\* destroys the socket and fails the connect with a timeout.
C20_TimerDisarmedOnSuccess ==
  \A c \in Channels :
    /\ chan[c].relayConn
         => ~chan[c].relayTimer /\ chan[c].relaySock # "destroyed"
    /\ chan[c].gatewayConn
         => ~chan[c].gatewayTimer /\ chan[c].gatewaySock # "destroyed"
    /\ chan[c].relayResult = "timeout"
         => /\ chan[c].relaySock = "destroyed"
            /\ ~chan[c].relayConn /\ chan[c].pc = "failed"
    /\ chan[c].gatewayResult = "timeout"
         => /\ chan[c].gatewaySock = "destroyed"
            /\ ~chan[c].gatewayConn /\ chan[c].pc = "failed"

C20_Witness ==
  \E c \in Channels :
    /\ chan[c].relayConn /\ ~chan[c].relayTimer /\ chan[c].relaySock = "open"
    /\ chan[c].gatewayResult = "timeout"

Settled == call.pc \in {"returned", "threw"}

\* The row limit in force for the call, as the claim words it.
EffectiveMaxRows == IF call.options = << >> THEN 1000 ELSE call.options[1]

RowsBeforeTruncation == call.result[1].length

C16_ClientEndedSocketKept ==
  Settled => call.sql = "ended" /\ call.gatewayConn = "open"

\* C17: the error a failed call throws carries the first 100 characters of
\* the query (the whole query when shorter) and no part of it is the
\* username or the password of the call.
C17_ErrorHasPreviewNoCredentials ==
  call.pc = "threw"
    => /\ \E k \in 1..Len(call.error[1]) :
            /\ "q" \in DOMAIN call.error[1][k]
            /\ call.error[1][k].q =
                 IF Len(call.query) <= 100 THEN call.query
                 ELSE SubSeq(call.query, 1, 100)
       /\ \A k \in 1..Len(call.error[1]) :
            "s" \in DOMAIN call.error[1][k]
              => /\ call.error[1][k].s # call.credentials[1].username
                 /\ call.error[1][k].s # call.credentials[1].password

\* A port segment that is a valid integer: one or more decimal digits.
IsInteger(text) == Len(text) > 0 /\ \A i \in 1..Len(text) : text[i] \in Digits

RECURSIVE DecimalValue(_)
DecimalValue(text) ==
  IF Len(text) = 0 THEN 0
  ELSE 10 * DecimalValue(SubSeq(text, 1, Len(text) - 1)) + DigitValue(text[Len(text)])

\* C21: an address without a colon connects to port 8443; an address
\* "host:port" whose port segment is an integer connects to that port; an
\* address whose port segment is not a valid integer fails (the call throws)
\* and no TLS connection is attempted. The class of the error is left out:
\* the statement is violated whatever the class.
C21_RelayAddressParsing ==
  dial.pc # "idle"
    => LET h == dial.relayHost[1]
       IN IF IndexOfColon(h) = 0
            THEN dial.pc = "connecting" /\ dial.host = << h >>
                 /\ dial.port = 8443
            ELSE IF IsInteger(PortSegment(h))
              THEN dial.pc = "connecting"
                   /\ dial.port = DecimalValue(PortSegment(h))
              ELSE dial.pc = "threw"

\* The bundle of the most recent set(id) in the history that no delete(id)
\* and no clear() follows; absent when there is none.
RECURSIVE LastBundle(_, _)
LastBundle(log, id) ==
  IF Len(log) = 0 THEN << >>
  ELSE LET last == log[Len(log)]
       IN IF last.op = "clear" THEN << >>
          ELSE IF last.key # id THEN LastBundle(SubSeq(log, 1, Len(log) - 1), id)
          ELSE IF last.op = "set" THEN << last.value >>
          ELSE << >>

\* C27: after any sequence of set, delete and clear the store holds at most
\* one bundle per id; get(id) is the bundle of the most recent set(id) not
\* followed by delete(id) or clear(), absent otherwise; has(id) is true
\* exactly when get(id) is not absent; size() is the number of ids keys()
\* returns, each id once.
C27_CacheHoldsLatestBundle ==
  /\ \A i, j \in 1..Len(CacheKeys) : CacheKeys[i] = CacheKeys[j] => i = j
  /\ \A id \in CacheIds :
       /\ CacheGet(id) = LastBundle(cache.log, id)
       /\ CacheHas(id) <=> CacheGet(id) # << >>
  /\ CacheSize = Len(CacheKeys)
  /\ CacheSize = Cardinality({ CacheKeys[i] : i \in 1..Len(CacheKeys) })

C27_Witness ==
  /\ Len(cache.log) = 4
  /\ cache.log[1] = [ op |-> "set", key |-> "s1", value |-> "b1" ]
  /\ cache.log[2] = [ op |-> "set", key |-> "s2", value |-> "b1" ]
  /\ cache.log[3] = [ op |-> "set", key |-> "s1", value |-> "b2" ]
  /\ cache.log[4] = [ op |-> "delete", key |-> "s2", value |-> "" ]
  /\ CacheGet("s1") = << "b2" >>
  /\ ~CacheHas("s2")
  /\ CacheSize = 1

\* C28: in every reachable state of a channel a gateway transport that is
\* connecting or open has an open relay transport underneath it.
C28_GatewayRidesOnRelay ==
  \A c \in TunnelChannels :
    chan[c].gatewaySock \in {"connecting", "open"} => chan[c].relaySock = "open"

\* The relay of an established tunnel was lost and took the gateway
\* transport with it, while on the other channel the gateway transport was
\* closed alone and its relay transport stays open.
C28_Witness ==
  /\ chan["ws"].gatewayConn /\ chan["ws"].relaySock = "lost"
  /\ chan["ws"].gatewaySock = "lost"
  /\ chan["ws2"].gatewaySock = "destroyed" /\ chan["ws2"].relaySock = "open"

\* The channels of session s whose relay transport is connecting or open.
TunnelsOf(s) ==
  { c \in TunnelChannels :
      chan[c].sessionId = s /\ chan[c].relaySock \in {"connecting", "open"} }

\* C29: at any time at most one relay+gateway tunnel exists for a session
\* id, also when the browser has several channels open for that session.
C29_OneTunnelPerSession ==
  \A s \in SessionIds : Cardinality(TunnelsOf(s)) <= 1

\* Establishment of channel c failed after the relay connect had started.
EstablishmentFailed(c) == chan[c].pc = "failed" /\ chan[c].relayAttempts > 0

NoTransportOpen(c) ==
  /\ chan[c].relaySock \notin {"connecting", "open"}
  /\ chan[c].gatewaySock \notin {"connecting", "open"}

\* C30: whenever establishment of a channel fails after the relay connect
\* started, every relay or gateway socket opened for that channel is
\* eventually closed or destroyed.
C30_FailedEstablishmentLeaksNothing ==
  \A c \in TunnelChannels : EstablishmentFailed(c) ~> NoTransportOpen(c)

\* C22: every reconnect timer scheduled when the attempt counter is k has
\* k in 0..4 and the delay 1000, 2000, 4000, 8000, 16000 ms for k = 0..4,
\* which is min(1000 * 2^k, 30000).
C22_BackoffDelays ==
  \A t \in 1..Len(hook.timers) :
    /\ hook.timers[t].attempt \in 0..4
    /\ hook.timers[t].delay =
         << 1000, 2000, 4000, 8000, 16000 >>[hook.timers[t].attempt + 1]
    /\ hook.timers[t].delay <= 30000

C22_Witness ==
  \E t \in 1..Len(hook.timers) :
    hook.timers[t].attempt = 4 /\ hook.timers[t].delay = 16000

\* Some socket of the hook is closed by the step.
SocketClosedByStep ==
  \E i \in 1..Len(hook.ws) :
    hook.ws[i].readyState # "CLOSED" /\ hook'.ws[i].readyState = "CLOSED"

\* Reconnecting has been given up: five reconnect attempts were made without
\* an open in between, every socket is closed and no timer is pending.
GivenUp(h) ==
  /\ h.reconnectAttempts >= 5
  /\ \A i \in 1..Len(h.ws) : h.ws[i].readyState = "CLOSED"
  /\ \A t \in 1..Len(h.timers) : h.timers[t].state # "pending"

\* C23: a close handled when five reconnect attempts have been made since the
\* last open schedules no timer and leaves the status disconnected; once
\* reconnecting has been given up the status stays disconnected and no socket
\* or timer is created, unless the mount effect runs again.
C23_StopsAfterFiveAttempts ==
  [][/\ (hook.reconnectAttempts >= 5 /\ SocketClosedByStep)
          => /\ Len(hook'.timers) = Len(hook.timers)
             /\ hook'.connectionStatus = "disconnected"
     /\ (GivenUp(hook) /\ hook'.effects = hook.effects)
          => /\ hook'.connectionStatus = "disconnected"
             /\ Len(hook'.ws) = Len(hook.ws)
             /\ Len(hook'.timers) = Len(hook.timers)]_vars

C23_Witness ==
  /\ GivenUp(hook)
  /\ hook.effects = 1 /\ hook.mounted /\ hook.shouldReconnect
  /\ Len(hook.ws) = 6 /\ Len(hook.timers) = 5
  /\ hook.connectionStatus = "disconnected"

\* C24: once a session_expired push has been handled, no socket is opened and
\* no reconnect timer is scheduled (as long as the mount effect does not run
\* again), and a close handled afterwards leaves the status disconnected.
C24_ExpiredNeverReconnects ==
  [][(hook.sawExpired /\ hook'.effects = hook.effects)
       => /\ Len(hook'.ws) = Len(hook.ws)
          /\ Len(hook'.timers) = Len(hook.timers)
          /\ SocketClosedByStep => hook'.connectionStatus = "disconnected"]_vars

\* C25: a call of executeQuery while the status is not connected sends
\* nothing, leaves the in-flight flag as it was and records the error.
C25_SubmitFailsUnlessConnected ==
  [][(hook'.submits = hook.submits + 1 /\ hook.connectionStatus # "connected")
       => /\ hook'.sends = hook.sends
          /\ hook'.isExecuting = hook.isExecuting
          /\ hook'.lastError = "WebSocket not connected"
          /\ hook'.ws = hook.ws]_vars

C25_Witness ==
  /\ hook.submits = 1 /\ hook.sends = 0
  /\ hook.connectionStatus = "reconnecting"
  /\ hook.lastError = "WebSocket not connected"
  /\ ~hook.isExecuting

\* C26: a close with the session ended/expired code (4404) or the forbidden
\* code (4403) is terminal for the client: no reconnect timer is scheduled
\* and the status is disconnected.
C26_RejectCodesAreTerminal ==
  [][(SocketClosedByStep /\ hook'.lastCloseCode \in {4403, 4404})
       => /\ Len(hook'.timers) = Len(hook.timers)
          /\ hook'.connectionStatus = "disconnected"]_vars

\* C31: a query the hook submits while its status is connected is received
\* by the server's message listener: no frame of the hook reaches the
\* server's socket before the listener is installed.
C31_NoQueryBeforeReady ==
  chan[LinkChannel].unheard = 0

\* C32: the in-flight flag set by executeQuery is eventually cleared, when
\* the query succeeds, when it fails, and when the channel closes or errors
\* while the query is outstanding.
C32_InFlightEventuallyCleared ==
  hook.isExecuting ~> ~hook.isExecuting

\* The sockets of the hook that are connecting or open, and its reconnect
\* timers that are scheduled and neither fired nor cleared.
LiveSockets == { i \in 1..Len(hook.ws) : hook.ws[i].readyState \in {"CONNECTING", "OPEN"} }

PendingTimers == { t \in 1..Len(hook.timers) : hook.timers[t].state = "pending" }

\* C33: the hook has at most one live WebSocket and at most one pending
\* reconnect timer at any time, also when its effect is torn down and run
\* again while the close event of the old socket is still to come.
C33_OneSocketOneTimer ==
  Cardinality(LiveSockets) <= 1 /\ Cardinality(PendingTimers) <= 1

\* The effect ran and its cleanup was the last thing the component did.
Disposed(h) == ~h.mounted /\ h.effects > 0

\* C34: once the hook is disposed no reconnect timer remains pending, and
\* as long as it stays disposed no step opens a connection or fires a timer.
C34_DisposedStaysQuiet ==
  [][ Disposed(hook) /\ Disposed(hook')
        => /\ PendingTimers = {}
           /\ Len(hook'.ws) = Len(hook.ws)
           /\ hook'.timers = hook.timers ]_vars

\* C35: in every reachable state of the hook at most one of lastResult and
\* lastError is set.
C35_ResultXorError ==
  ~(hook.lastResult # "null" /\ hook.lastError # "null")

\* Session s can still be used: neither ended nor terminated, not past its
\* expiry, and its bundle is in the credential store.
SessionUsable(s) ==
  /\ sessStatus[s] \notin {"ended", "terminated"}
  /\ ~(expiresAt[s] # << >> /\ expiresAt[s][1] < now)
  /\ store[s] # << >>

\* The step hands a query of channel c to the bridge.
StartsQuery(c) ==
  /\ Len(chan'[c].msgs) = Len(chan[c].msgs) + 1
  /\ chan'[c].msgs[Len(chan'[c].msgs)] = "executing"

\* C36: no query is executed for a session that has ended, was terminated
\* or is past its expiry, nor after its bundle was deleted from the store:
\* every step that starts a query finds the channel's session usable.
C36_NoQueryOnInvalidSession ==
  [][ \A c \in Channels : StartsQuery(c) => SessionUsable(chan[c].sessionId) ]_vars

====
